---- MODULE Spec2Model ----
(***************************************************************************)
(* The sequential-thinking tracker of the MCP server:                      *)
(*   src/services/sequential_thinking_service.py  SequentialThinkingService *)
(*   src/utils/__init__.py                        ThoughtData, ThoughtResponse *)
(*   src/tools/sequential_thinking_tools.py       the three tools          *)
(*   src/services/arxiv_service.py                the limits of the searches *)
(* The service object is the state (thought_history, branches); every      *)
(* public method is one action.  Python lists are objects on a heap, so    *)
(* that a copy and an alias of a list are different things.                *)
(***************************************************************************)
EXTENDS Integers, Sequences, FiniteSets, TLC

VARIABLES
    lists,          \* heap of list objects: list id -> sequence of ThoughtData
    branches,       \* self.branches: dict as sequence of <<key, list id>>, insertion order
    held_history,   \* the list a caller got from get_thought_history (a list id) or NoRef
    held_branches,  \* the dict a caller got from get_branches: [held, items]
    ret,            \* the value the last call returned: [op, value]
    accepted,       \* the validated submissions that returned success since the last clear
    tasks,          \* the event loop: the tool invocations in flight, each with its position
    search,         \* the last arxiv.Search an ArXivService method built: [op, asked, max_results]
    disable_thought_logging,  \* self.disable_thought_logging, read from the environment
    logged,         \* what the last step gave the logger: [level, message], NotLogged if nothing
    twin,           \* the service constructed with DISABLE_THOUGHT_LOGGING=true: its fields
    upstream        \* what arXiv answered the last get_trending_categories: [main, recent, min_papers]

vars == <<lists, branches, held_history, held_branches, ret, accepted, tasks, search,
          disable_thought_logging, logged, twin, upstream>>

(***************************************************************************)
(* Bounds.                                                                 *)
(***************************************************************************)
\* process_thought is not taken once thought_history holds MaxHist records
MaxHist == 3
\* a caller does not grow a list it holds beyond MaxHeld elements
MaxHeld == 3

(***************************************************************************)
(* Python values.  A payload value carries its type.                       *)
(***************************************************************************)
PyNone == [t |-> "none", v |-> 0]
PyInt(n) == [t |-> "int", v |-> n]
PyStr(s) == [t |-> "str", v |-> s]
PyBool(b) == [t |-> "bool", v |-> b]

\* bool(x) of a value, as `if x and y` evaluates it
Truthy(x) ==
    CASE x.t = "none" -> FALSE
      [] x.t = "int" -> x.v # 0
      [] x.t = "str" -> x.v # ""
      [] x.t = "bool" -> x.v

(***************************************************************************)
(* Key names are sequences of characters, so that _camel_to_snake can be   *)
(* computed on them.                                                       *)
(***************************************************************************)
LowerLetters ==
    <<"a","b","c","d","e","f","g","h","i","j","k","l","m",
      "n","o","p","q","r","s","t","u","v","w","x","y","z">>
UpperLetters ==
    <<"A","B","C","D","E","F","G","H","I","J","K","L","M",
      "N","O","P","Q","R","S","T","U","V","W","X","Y","Z">>
Digits == {"0","1","2","3","4","5","6","7","8","9"}

IsLower(c) == \E i \in 1..26 : LowerLetters[i] = c
IsUpper(c) == \E i \in 1..26 : UpperLetters[i] = c

\* str.lower() of one character
LowerChar(c) ==
    IF IsUpper(c) THEN LowerLetters[CHOOSE i \in 1..26 : UpperLetters[i] = c] ELSE c

\* the end of the run [a-z]+ that starts at position i of s
RECURSIVE LowerRunEnd(_, _)
LowerRunEnd(s, i) ==
    IF i + 1 <= Len(s) /\ IsLower(s[i + 1]) THEN LowerRunEnd(s, i + 1) ELSE i

\* re.sub('(.)([A-Z][a-z]+)', r'\1_\2', s), scanning from position i
RECURSIVE SubWord(_, _)
SubWord(s, i) ==
    IF i > Len(s) THEN <<>>
    ELSE IF i + 2 <= Len(s) /\ IsUpper(s[i + 1]) /\ IsLower(s[i + 2])
         THEN LET j == LowerRunEnd(s, i + 2)
              IN  <<s[i], "_">> \o SubSeq(s, i + 1, j) \o SubWord(s, j + 1)
         ELSE <<s[i]>> \o SubWord(s, i + 1)

\* re.sub('([a-z0-9])([A-Z])', r'\1_\2', s), scanning from position i
RECURSIVE SubHump(_, _)
SubHump(s, i) ==
    IF i > Len(s) THEN <<>>
    ELSE IF i + 1 <= Len(s) /\ (IsLower(s[i]) \/ s[i] \in Digits) /\ IsUpper(s[i + 1])
         THEN <<s[i], "_", s[i + 1]>> \o SubHump(s, i + 2)
         ELSE <<s[i]>> \o SubHump(s, i + 1)

\* mutant: the name is only put in lower case
_camel_to_lower(name) == [i \in 1..Len(name) |-> LowerChar(name[i])]
_camel_to_snake(name) ==
    LET s1 == SubWord(name, 1)
        s2 == SubHump(s1, 1)
    IN  [i \in 1..Len(s2) |-> LowerChar(s2[i])]

\* the names of the fields of ThoughtData
F_thought == <<"t","h","o","u","g","h","t">>
F_thought_number == <<"t","h","o","u","g","h","t","_","n","u","m","b","e","r">>
F_total_thoughts == <<"t","o","t","a","l","_","t","h","o","u","g","h","t","s">>
F_next_thought_needed ==
    <<"n","e","x","t","_","t","h","o","u","g","h","t","_","n","e","e","d","e","d">>
F_is_revision == <<"i","s","_","r","e","v","i","s","i","o","n">>
F_revises_thought == <<"r","e","v","i","s","e","s","_","t","h","o","u","g","h","t">>
F_branch_from_thought ==
    <<"b","r","a","n","c","h","_","f","r","o","m","_","t","h","o","u","g","h","t">>
F_branch_id == <<"b","r","a","n","c","h","_","i","d">>
F_needs_more_thoughts ==
    <<"n","e","e","d","s","_","m","o","r","e","_","t","h","o","u","g","h","t","s">>

\* the keys the tool adapter sends
K_thoughtNumber == <<"t","h","o","u","g","h","t","N","u","m","b","e","r">>
K_totalThoughts == <<"t","o","t","a","l","T","h","o","u","g","h","t","s">>
K_nextThoughtNeeded ==
    <<"n","e","x","t","T","h","o","u","g","h","t","N","e","e","d","e","d">>
K_isRevision == <<"i","s","R","e","v","i","s","i","o","n">>
K_revisesThought == <<"r","e","v","i","s","e","s","T","h","o","u","g","h","t">>
K_branchFromThought ==
    <<"b","r","a","n","c","h","F","r","o","m","T","h","o","u","g","h","t">>
K_branchId == <<"b","r","a","n","c","h","I","d">>
K_needsMoreThoughts ==
    <<"n","e","e","d","s","M","o","r","e","T","h","o","u","g","h","t","s">>

(***************************************************************************)
(* Dictionaries are sequences of <<key, value>> pairs in insertion order.  *)
(***************************************************************************)
DictKeys(d) == [i \in 1..Len(d) |-> d[i][1]]
HasKey(d, k) == \E i \in 1..Len(d) : d[i][1] = k
DictGet(d, k) == d[CHOOSE i \in 1..Len(d) : d[i][1] = k][2]
\* mutant: a new key is put in front of the others
DictSetInFront(d, k, v) ==
    IF HasKey(d, k)
    THEN [i \in 1..Len(d) |-> IF d[i][1] = k THEN <<k, v>> ELSE d[i]]
    ELSE <<<<k, v>>>> \o d
\* d[k] = v
DictSet(d, k, v) ==
    IF HasKey(d, k)
    THEN [i \in 1..Len(d) |-> IF d[i][1] = k THEN <<k, v>> ELSE d[i]]
    ELSE Append(d, <<k, v>>)

(***************************************************************************)
(* ThoughtData (pydantic model): field constraints.                        *)
(***************************************************************************)
Missing == [t |-> "missing", v |-> 0]
Field(data, name) == IF HasKey(data, name) THEN DictGet(data, name) ELSE Missing

\* thought: str = Field(...)
RequiredStr(x) == x.t = "str"
\* mutant: the bound of the integer fields is ge=0
RequiredIntGe0(x) == x.t = "int" /\ x.v >= 0
\* int = Field(..., ge=1)
RequiredIntGe1(x) == x.t = "int" /\ x.v >= 1
\* bool = Field(...)
RequiredBool(x) == x.t = "bool"
\* mutant: the optional integer fields have no bound
OptionalIntAny(x) == x.t \in {"missing", "none", "int"}
\* Optional[int] = Field(None, ge=1)
OptionalIntGe1(x) == x.t \in {"missing", "none"} \/ (x.t = "int" /\ x.v >= 1)
\* Optional[bool] = Field(None)
OptionalBool(x) == x.t \in {"missing", "none", "bool"}
\* Optional[str] = Field(None)
OptionalStr(x) == x.t \in {"missing", "none", "str"}

\* the value an optional field holds: its default None when the key is missing
Default(x) == IF x.t = "missing" THEN PyNone ELSE x

\* ThoughtData(**data): the model instance, or pydantic's ValidationError
ThoughtData(data) ==
    LET thought == Field(data, F_thought)
        thought_number == Field(data, F_thought_number)
        total_thoughts == Field(data, F_total_thoughts)
        next_thought_needed == Field(data, F_next_thought_needed)
        is_revision == Field(data, F_is_revision)
        revises_thought == Field(data, F_revises_thought)
        branch_from_thought == Field(data, F_branch_from_thought)
        branch_id == Field(data, F_branch_id)
        needs_more_thoughts == Field(data, F_needs_more_thoughts)
    IN  IF /\ RequiredStr(thought)
           /\ RequiredIntGe1(thought_number)
           /\ RequiredIntGe1(total_thoughts)
           /\ RequiredBool(next_thought_needed)
           /\ OptionalBool(is_revision)
           /\ OptionalIntGe1(revises_thought)
           /\ OptionalIntGe1(branch_from_thought)
           /\ OptionalStr(branch_id)
           /\ OptionalBool(needs_more_thoughts)
        THEN [ok |-> TRUE,
              value |-> [thought |-> thought.v,
                         thought_number |-> thought_number.v,
                         total_thoughts |-> total_thoughts.v,
                         next_thought_needed |-> next_thought_needed.v,
                         is_revision |-> Default(is_revision),
                         revises_thought |-> Default(revises_thought),
                         branch_from_thought |-> Default(branch_from_thought),
                         branch_id |-> Default(branch_id),
                         needs_more_thoughts |-> Default(needs_more_thoughts)]]
        ELSE [ok |-> FALSE, error |-> "validation error for ThoughtData"]

(***************************************************************************)
(* SequentialThinkingService._validate_thought_data                        *)
(***************************************************************************)
\* for key, value in input_data.items(): data[_camel_to_snake(key)] = value
RECURSIVE SnakeKeys(_, _)
SnakeKeys(items, data) ==
    IF items = <<>> THEN data
    ELSE SnakeKeys(Tail(items),
                   DictSet(data, _camel_to_snake(Head(items)[1]), Head(items)[2]))

\* the ThoughtData, or the ValueError the method raises
_validate_thought_data(input_data) ==
    IF input_data.kind = "dict"
    THEN LET r == ThoughtData(SnakeKeys(input_data.items, <<>>))
         IN  IF r.ok THEN r
             ELSE [ok |-> FALSE, error |-> "Invalid thought data: " \o r.error]
    ELSE [ok |-> FALSE,
          error |-> "Invalid thought data: " \o "Input must be a dictionary"]

(***************************************************************************)
(* The payloads submitted.  A payload is a dictionary or something else.   *)
(* A dictionary's keys are in the order the tool adapter writes them.      *)
(***************************************************************************)
SnakeKey ==
    [thought |-> F_thought, next_thought_needed |-> F_next_thought_needed,
     thought_number |-> F_thought_number, total_thoughts |-> F_total_thoughts,
     is_revision |-> F_is_revision, revises_thought |-> F_revises_thought,
     branch_from_thought |-> F_branch_from_thought, branch_id |-> F_branch_id,
     needs_more_thoughts |-> F_needs_more_thoughts]
CamelKey ==
    [thought |-> F_thought, next_thought_needed |-> K_nextThoughtNeeded,
     thought_number |-> K_thoughtNumber, total_thoughts |-> K_totalThoughts,
     is_revision |-> K_isRevision, revises_thought |-> K_revisesThought,
     branch_from_thought |-> K_branchFromThought, branch_id |-> K_branchId,
     needs_more_thoughts |-> K_needsMoreThoughts]

\* the dictionary with the values c under the keys `keys`; Missing leaves a key out
Payload(keys, c) ==
    [kind |-> "dict",
     items |-> SelectSeq(
        << <<keys.thought, c.thought>>,
           <<keys.next_thought_needed, c.next_thought_needed>>,
           <<keys.thought_number, c.thought_number>>,
           <<keys.total_thoughts, c.total_thoughts>>,
           <<keys.is_revision, c.is_revision>>,
           <<keys.revises_thought, c.revises_thought>>,
           <<keys.branch_from_thought, c.branch_from_thought>>,
           <<keys.branch_id, c.branch_id>>,
           <<keys.needs_more_thoughts, c.needs_more_thoughts>> >>,
        LAMBDA kv : kv[2] # Missing)]
\* an input that is no dictionary
NotADict == [kind |-> "str", items |-> <<>>]

\* thought "A", number 2 of 1 (so the total is raised), more needed, no optional field
BaseChoice ==
    [thought |-> PyStr("A"), next_thought_needed |-> PyBool(TRUE),
     thought_number |-> PyInt(2), total_thoughts |-> PyInt(1),
     is_revision |-> Missing, revises_thought |-> Missing,
     branch_from_thought |-> Missing, branch_id |-> Missing,
     needs_more_thoughts |-> Missing]

\* the base payload with one group of fields changed
ThoughtChoices ==
    {[BaseChoice EXCEPT !.thought = x] : x \in {PyStr("A"), PyNone, Missing}}
NeededChoices ==
    {[BaseChoice EXCEPT !.next_thought_needed = x] :
        x \in {PyBool(TRUE), PyBool(FALSE), Missing}}
NumberChoices ==
    {[BaseChoice EXCEPT !.thought_number = n, !.total_thoughts = t] :
        n \in {PyInt(0), PyInt(1), PyInt(2), PyStr("abc"), Missing},
        t \in {PyInt(0), PyInt(1), PyInt(2), Missing}}
RevisionChoices ==
    {[BaseChoice EXCEPT !.revises_thought = x] : x \in {PyNone, PyInt(0), PyInt(1)}}
BranchChoices ==
    {[BaseChoice EXCEPT !.branch_from_thought = bb[1], !.branch_id = bb[2]] :
        bb \in {<<PyInt(1), PyStr("x")>>, <<PyInt(1), PyStr("y")>>,
                <<PyInt(1), PyStr("")>>, <<PyInt(1), Missing>>,
                <<Missing, PyStr("x")>>, <<PyInt(0), PyStr("x")>>}}
Choices ==
    ThoughtChoices \cup NeededChoices \cup NumberChoices \cup RevisionChoices
        \cup BranchChoices

PayloadsOf(C) == {Payload(keys, c) : keys \in {SnakeKey, CamelKey}, c \in C}
Inputs == PayloadsOf(Choices) \cup {NotADict}

\* records whose numbers lie beyond the history, repeat, or refer to the record
\* itself, to a later record or to none; and one the validator refuses
ReferenceChoices ==
    {[BaseChoice EXCEPT !.thought_number = PyInt(9)],
     [BaseChoice EXCEPT !.thought_number = PyInt(1), !.is_revision = PyBool(TRUE),
                        !.revises_thought = PyInt(1)],
     [BaseChoice EXCEPT !.thought_number = PyInt(1), !.is_revision = PyBool(TRUE),
                        !.revises_thought = PyInt(2)],
     [BaseChoice EXCEPT !.thought_number = PyInt(2), !.is_revision = PyBool(TRUE),
                        !.revises_thought = PyInt(1)],
     [BaseChoice EXCEPT !.thought_number = PyInt(1), !.branch_from_thought = PyInt(1),
                        !.branch_id = PyStr("x")],
     [BaseChoice EXCEPT !.thought_number = PyInt(1), !.branch_from_thought = PyInt(2),
                        !.branch_id = PyStr("x")],
     [BaseChoice EXCEPT !.thought_number = PyInt(0)]}
ReferenceInputs == {Payload(SnakeKey, c) : c \in ReferenceChoices}

\* payloads that carry every key that has two spellings
FullChoice ==
    [thought |-> PyStr("A"), next_thought_needed |-> PyBool(FALSE),
     thought_number |-> PyInt(2), total_thoughts |-> PyInt(1),
     is_revision |-> PyBool(TRUE), revises_thought |-> PyInt(1),
     branch_from_thought |-> PyInt(1), branch_id |-> PyStr("x"),
     needs_more_thoughts |-> PyBool(TRUE)]
SpellingChoices ==
    {FullChoice,
     [FullChoice EXCEPT !.branch_id = PyStr("y"), !.needs_more_thoughts = PyBool(FALSE)],
     [FullChoice EXCEPT !.thought_number = PyInt(1), !.total_thoughts = PyInt(2),
                        !.next_thought_needed = PyBool(TRUE),
                        !.is_revision = PyBool(FALSE), !.revises_thought = PyNone,
                        !.branch_from_thought = PyNone, !.branch_id = PyNone,
                        !.needs_more_thoughts = PyNone],
     [FullChoice EXCEPT !.is_revision = PyNone, !.revises_thought = Missing],
     [FullChoice EXCEPT !.thought_number = PyInt(0)],
     [FullChoice EXCEPT !.revises_thought = PyInt(0)],
     [FullChoice EXCEPT !.next_thought_needed = Missing]}

\* the arguments of the sequential_thinking tool: the four required ones, and the
\* optional ones the caller gives
ToolChoice ==
    [thought |-> PyStr("A"), next_thought_needed |-> PyBool(TRUE),
     thought_number |-> PyInt(1), total_thoughts |-> PyInt(1),
     is_revision |-> Missing, revises_thought |-> Missing,
     branch_from_thought |-> Missing, branch_id |-> Missing,
     needs_more_thoughts |-> Missing]
ToolChoices ==
    {ToolChoice,
     [ToolChoice EXCEPT !.thought = PyStr("")],
     [ToolChoice EXCEPT !.thought_number = PyInt(2)],
     [ToolChoice EXCEPT !.thought_number = PyInt(0)],
     [ToolChoice EXCEPT !.branch_from_thought = PyInt(1), !.branch_id = PyStr("x")],
     [ToolChoice EXCEPT !.branch_from_thought = PyInt(1), !.branch_id = PyStr("")]}

\* the parameters of sequential_thinking after the defaults of its signature
Parameters(c) ==
    [c EXCEPT !.is_revision = IF @ = Missing THEN PyBool(FALSE) ELSE @,
              !.revises_thought = IF @ = Missing THEN PyNone ELSE @,
              !.branch_from_thought = IF @ = Missing THEN PyNone ELSE @,
              !.branch_id = IF @ = Missing THEN PyNone ELSE @,
              !.needs_more_thoughts = IF @ = Missing THEN PyNone ELSE @]
\* input_data = {"thought": thought, "nextThoughtNeeded": next_thought_needed, ...}
ToolPayload(c) == Payload(CamelKey, Parameters(c))

\* records for the branches: two different records for branch "x", the first with
\* a total below its number; one for branch "y"; one on no branch; one whose
\* branch_id is ""
StoreChoices ==
    {[BaseChoice EXCEPT !.branch_from_thought = PyInt(1), !.branch_id = PyStr("x")],
     [BaseChoice EXCEPT !.thought_number = PyInt(1), !.branch_from_thought = PyInt(2),
                        !.branch_id = PyStr("x")],
     [BaseChoice EXCEPT !.thought_number = PyInt(1), !.branch_from_thought = PyInt(1),
                        !.branch_id = PyStr("y")],
     [BaseChoice EXCEPT !.thought_number = PyInt(1)],
     [BaseChoice EXCEPT !.branch_from_thought = PyInt(1), !.branch_id = PyStr("")]}
StoreInputs == {Payload(SnakeKey, c) : c \in StoreChoices}

\* a plain thought, a revision that names no thought, a revision of thought 1, a
\* thought on branch "x", a long thought, and two payloads the validator refuses
LoggingChoices ==
    {BaseChoice,
     [BaseChoice EXCEPT !.is_revision = PyBool(TRUE)],
     [BaseChoice EXCEPT !.is_revision = PyBool(TRUE), !.revises_thought = PyInt(1)],
     [BaseChoice EXCEPT !.branch_from_thought = PyInt(1), !.branch_id = PyStr("x")],
     [BaseChoice EXCEPT !.thought = PyStr("a thought longer than its header")],
     [BaseChoice EXCEPT !.thought_number = PyInt(0)]}
LoggingInputs == {Payload(SnakeKey, c) : c \in LoggingChoices} \cup {NotADict}

\* every payload a call of process_thought is given
Payloads ==
    Inputs \cup ReferenceInputs \cup PayloadsOf(Choices \cup SpellingChoices)
        \cup {ToolPayload(c) : c \in ToolChoices} \cup StoreInputs \cup LoggingInputs

(***************************************************************************)
(* The heap of list objects.                                               *)
(***************************************************************************)
\* the list created by `self.thought_history = []`
self_thought_history == 0
thought_history == lists[self_thought_history]

\* the id of a list object that does not exist yet
NewList(L) == CHOOSE n \in 1..(Cardinality(DOMAIN L) + 1) :
                 n \notin DOMAIN L /\ \A m \in 1..(n - 1) : m \in DOMAIN L

\* reference counting: a list nobody refers to no longer exists
Collect(L, B, hh, hb) ==
    LET live == {self_thought_history}
                  \cup {B[i][2] : i \in 1..Len(B)}
                  \cup (IF hh.held THEN {hh.ref} ELSE {})
                  \cup {hb.items[i][2] : i \in 1..Len(hb.items)}
    IN  [n \in (DOMAIN L) \cap live |-> L[n]]

\* the sequences a dictionary of lists holds, by value
Deep(L, B) == [i \in 1..Len(B) |-> <<B[i][1], L[B[i][2]]>>]

\* no arxiv.Search has been built
NoSearch == [op |-> "none", asked |-> PyNone, max_results |-> 0]
\* a query that was not made
NotAsked == [results |-> <<>>, raises |-> FALSE]
\* get_trending_categories has not been called
NoAnswer == [main |-> NotAsked, recent |-> NotAsked, min_papers |-> 0]

\* logger.info(m), logger.error(m): the message is a tuple of the pieces of its text
Info(m) == [level |-> "INFO", message |-> m]
Error(m) == [level |-> "ERROR", message |-> m]
\* the call gave the logger nothing
NotLogged == [level |-> "NONE", message |-> <<>>]

Init ==
    /\ lists = (self_thought_history :> <<>>)
    /\ branches = <<>>
    /\ held_history = [held |-> FALSE, ref |-> self_thought_history]
    /\ held_branches = [held |-> FALSE, items |-> <<>>]
    /\ ret = [op |-> "__init__", value |-> PyNone]
    /\ accepted = <<>>
    /\ tasks = <<>>
    /\ search = NoSearch
    /\ disable_thought_logging = FALSE   \* DISABLE_THOUGHT_LOGGING is not set
    /\ logged = Info(<<"Sequential Thinking Service initialized">>)
    /\ twin = [disable_thought_logging |-> ~disable_thought_logging,
               lists |-> (self_thought_history :> <<>>), branches |-> <<>>,
               ret |-> [op |-> "__init__", value |-> PyNone],
               logged |-> Info(<<"Sequential Thinking Service initialized">>)]
    /\ upstream = NoAnswer

(***************************************************************************)
(* SequentialThinkingService.process_thought                               *)
(***************************************************************************)
\* mutant: the total is stored as submitted
AdjustTotalNever(td) == td
\* if thought_number > total_thoughts: total_thoughts = thought_number
AdjustTotal(td) ==
    IF td.thought_number > td.total_thoughts
    THEN [td EXCEPT !.total_thoughts = td.thought_number]
    ELSE td

\* mutant: the record is not appended to the history
AppendHistoryDropped(L, td) == L
\* mutant: the record is put in front of the history
AppendHistoryInFront(L, td) == [L EXCEPT ![self_thought_history] = <<td>> \o @]
\* self.thought_history.append(validated_input)
AppendHistory(L, td) == [L EXCEPT ![self_thought_history] = Append(@, td)]

\* mutant: the record is put in front of its branch
HandleBranchingInFront(L, B, td) ==
    IF Truthy(td.branch_from_thought) /\ Truthy(td.branch_id)
    THEN LET key == td.branch_id.v
             L1 == IF HasKey(B, key) THEN L ELSE L @@ (NewList(L) :> <<>>)
             B1 == IF HasKey(B, key) THEN B ELSE DictSet(B, key, NewList(L))
             id == DictGet(B1, key)
         IN  [lists |-> [L1 EXCEPT ![id] = <<td>> \o @], branches |-> B1]
    ELSE [lists |-> L, branches |-> B]
\* the `# Handle branching` block: the heap and self.branches after it
HandleBranching(L, B, td) ==
    IF Truthy(td.branch_from_thought) /\ Truthy(td.branch_id)
    THEN LET key == td.branch_id.v
             L1 == IF HasKey(B, key) THEN L ELSE L @@ (NewList(L) :> <<>>)
             B1 == IF HasKey(B, key) THEN B ELSE DictSet(B, key, NewList(L))
             id == DictGet(B1, key)
         IN  [lists |-> [L1 EXCEPT ![id] = Append(@, td)], branches |-> B1]
    ELSE [lists |-> L, branches |-> B]

\* mutant: the response lists the branches from before the call
SuccessResponseStale(td, L, B) ==
    [thought_number |-> td.thought_number,
     total_thoughts |-> td.total_thoughts,
     next_thought_needed |-> td.next_thought_needed,
     branches |-> DictKeys(branches),
     thought_history_length |-> Len(L[self_thought_history]),
     error |-> PyNone,
     status |-> PyNone]
\* the ThoughtResponse of the try block
SuccessResponse(td, L, B) ==
    [thought_number |-> td.thought_number,
     total_thoughts |-> td.total_thoughts,
     next_thought_needed |-> td.next_thought_needed,
     branches |-> DictKeys(B),
     thought_history_length |-> Len(L[self_thought_history]),
     error |-> PyNone,
     status |-> PyNone]

\* mutant: the failed response lists the store's branches
FailureResponseLiveBranches(L, B, e) ==
    [thought_number |-> 0,
     total_thoughts |-> 0,
     next_thought_needed |-> FALSE,
     branches |-> DictKeys(B),
     thought_history_length |-> Len(L[self_thought_history]),
     error |-> PyStr(e),
     status |-> PyStr("failed")]
\* the ThoughtResponse of the except block
FailureResponse(L, B, e) ==
    [thought_number |-> 0,
     total_thoughts |-> 0,
     next_thought_needed |-> FALSE,
     branches |-> <<>>,
     thought_history_length |-> Len(L[self_thought_history]),
     error |-> PyStr(e),
     status |-> PyStr("failed")]

\* validated_input = self._validate_thought_data(input_data), for every payload
validated == [input_data \in Payloads |-> _validate_thought_data(input_data)]

\* an exception that leaves an operation instead of a return value
Raised(e) == [exception |-> e]

\* str(x) of a field of the record inside an f-string
Str(x) == IF x = PyNone THEN "None" ELSE IF x.t = "str" THEN x.v ELSE ToString(x.v)

\* the prefix and the context of the header; the first character of a prefix
\* stands for its emoji
Prefix(td) ==
    IF Truthy(td.is_revision) THEN "@ Revision"
    ELSE IF Truthy(td.branch_from_thought) THEN "@ Branch"
    ELSE "@ Thought"
Context(td) ==
    IF Truthy(td.is_revision)
    THEN " (revising thought " \o Str(td.revises_thought) \o ")"
    ELSE IF Truthy(td.branch_from_thought)
    THEN " (from thought " \o Str(td.branch_from_thought) \o ", ID: "
            \o Str(td.branch_id) \o ")"
    ELSE ""
\* header = f"{prefix} {thought_number}/{total_thoughts}{context}"
Header(td) ==
    Prefix(td) \o " " \o ToString(td.thought_number) \o "/"
        \o ToString(td.total_thoughts) \o Context(td)
\* border_length = max(len(header), len(thought)) + 4
BorderLength(header, thought) ==
    (IF Len(header) > Len(thought) THEN Len(header) ELSE Len(thought)) + 4
\* the framed text, as the header, the thought and the width that make it up
Framed(header, thought) == <<header, thought, BorderLength(header, thought)>>

\* mutant: the revised thought is formatted as a number, which None is not
_format_thought_number(td) ==
    IF Truthy(td.is_revision) /\ td.revises_thought = PyNone
    THEN [raised |-> TRUE, error |-> "unsupported format string passed to NoneType.__format__"]
    ELSE [raised |-> FALSE, value |-> Framed(Header(td), td.thought)]
\* the text _format_thought returns; no statement of it raises on a ThoughtData
_format_thought(td) == [raised |-> FALSE, value |-> Framed(Header(td), td.thought)]

\* the records the payloads validate to, with the total adjusted
ThoughtRecords ==
    {AdjustTotal(validated[input_data].value) :
        input_data \in {p \in Payloads : validated[p].ok}}
\* formatted_thought = self._format_thought(validated_input), for every record
formatted_thought == [td \in ThoughtRecords |-> _format_thought(td)]

\* logger.info(formatted_thought), when _format_thought returned f
logger_info(f) ==
    IF f.raised THEN [raised |-> TRUE, error |-> f.error]
    ELSE [raised |-> FALSE, logged |-> Info(f.value)]
\* the `# Log formatted thought` block of a service whose toggle is `disabled`:
\* the exception it raises, or the message it gave the logger
LogThought(disabled, td) ==
    IF disabled THEN [raised |-> FALSE, logged |-> NotLogged]
    ELSE logger_info(formatted_thought[td])

\* the rest of the try block once the `# Handle branching` block left hb and the
\* logging block did lg: the response, or the exception of the logging block
Responded(td, hb, lg) ==
    IF lg.raised
    THEN [raised |-> TRUE, appended |-> TRUE, lists |-> hb.lists,
          branches |-> hb.branches, error |-> lg.error]
    ELSE [raised |-> FALSE, appended |-> TRUE, lists |-> hb.lists,
          branches |-> hb.branches, logged |-> lg.logged,
          value |-> SuccessResponse(td, hb.lists, hb.branches)]
\* the try block from the append of the record td on
Appended(disabled, L, B, td) ==
    Responded(td, HandleBranching(AppendHistory(L, td), B, td), LogThought(disabled, td))

\* mutant: a thought whose number is not the next in the history is refused
try_block_in_sequence(disabled, L, B, input_data) ==
    IF /\ validated[input_data].ok
       /\ validated[input_data].value.thought_number = Len(L[self_thought_history]) + 1
    THEN Appended(disabled, L, B, AdjustTotal(validated[input_data].value))
    ELSE [raised |-> TRUE, appended |-> FALSE, lists |-> L, branches |-> B,
          error |-> "thought out of sequence"]
\* the try block of process_thought, in a service whose toggle is `disabled`, run
\* on the heap L and the dictionary B: what it leaves, and the response it
\* returns or the exception it raises
try_block(disabled, L, B, input_data) ==
    IF validated[input_data].ok
    THEN Appended(disabled, L, B, AdjustTotal(validated[input_data].value))
    ELSE [raised |-> TRUE, appended |-> FALSE, lists |-> L, branches |-> B,
          error |-> validated[input_data].error]

\* mutant: the handler lets the exception go on
except_block_reraise(L, B, e) ==
    [raised |-> TRUE, error |-> e, logged |-> Error(<<"Error processing thought: ", e>>)]
\* except Exception as e: logger.error(...); return ThoughtResponse(...)
except_block(L, B, e) ==
    [raised |-> FALSE, value |-> FailureResponse(L, B, e),
     logged |-> Error(<<"Error processing thought: ", e>>)]

\* what a call leaves and gives its caller: t the outcome of the try block, r the
\* outcome after the except block
Left(t, r) ==
    [lists |-> t.lists, branches |-> t.branches, appended |-> t.appended,
     raised |-> r.raised, logged |-> r.logged,
     value |-> IF r.raised THEN Raised(r.error) ELSE r.value]
\* the except block runs when the try block raised
Handled(t) ==
    Left(t, IF t.raised THEN except_block(t.lists, t.branches, t.error) ELSE t)
\* process_thought of a service whose toggle is `disabled`
ProcessedBy(disabled, L, B, input_data) == Handled(try_block(disabled, L, B, input_data))
\* process_thought run on the heap L and the dictionary B: what it leaves,
\* whether it appended, and what its caller gets
Processed(L, B, input_data) == ProcessedBy(disable_thought_logging, L, B, input_data)

process_thought(input_data) ==
    \E p \in {Processed(lists, branches, input_data)} :
        /\ lists' = p.lists
        /\ branches' = p.branches
        /\ ret' = [op |-> "process_thought", value |-> p.value]
        /\ accepted' = IF p.appended
                       THEN Append(accepted, validated[input_data].value)
                       ELSE accepted
        /\ logged' = p.logged
        /\ UNCHANGED <<held_history, held_branches, tasks, search,
                       disable_thought_logging, twin, upstream>>

\* a call of process_thought with a payload of S; a call that would append is not
\* made on a full history
ProcessThoughtOn(S) ==
    \E input_data \in S :
        /\ Len(thought_history) < MaxHist \/ ~validated[input_data].ok
        /\ process_thought(input_data)

ProcessThought == ProcessThoughtOn(Inputs)

(***************************************************************************)
(* SequentialThinkingService.clear_history, get_summary                    *)
(***************************************************************************)
\* mutant: only the history is cleared
clear_history_keeps_branches ==
    /\ lists' = [lists EXCEPT ![self_thought_history] = <<>>]
    /\ ret' = [op |-> "clear_history", value |-> PyNone]
    /\ accepted' = <<>>
    /\ logged' = Info(<<"Thought history and branches cleared">>)
    /\ UNCHANGED <<branches, held_history, held_branches, tasks, search,
                   disable_thought_logging, twin, upstream>>

clear_history ==
    /\ lists' = Collect([lists EXCEPT ![self_thought_history] = <<>>],
                        <<>>, held_history, held_branches)
    /\ branches' = <<>>
    /\ ret' = [op |-> "clear_history", value |-> PyNone]
    /\ accepted' = <<>>
    /\ logged' = Info(<<"Thought history and branches cleared">>)
    /\ UNCHANGED <<held_history, held_branches, tasks, search,
                   disable_thought_logging, twin, upstream>>

\* mutant: the latest numbers are read from the first record
summary_first ==
    [total_thoughts |-> Len(thought_history),
     branches |-> DictKeys(branches),
     branch_count |-> Len(branches),
     latest_thought_number |->
        IF thought_history # <<>> THEN thought_history[1].thought_number ELSE 0,
     latest_total_estimate |->
        IF thought_history # <<>> THEN thought_history[1].total_thoughts ELSE 0]

\* the dictionary get_summary builds from the history h and the dictionary B
SummaryOf(h, B) ==
    [total_thoughts |-> Len(h),
     branches |-> DictKeys(B),
     branch_count |-> Len(B),
     latest_thought_number |-> IF h # <<>> THEN h[Len(h)].thought_number ELSE 0,
     latest_total_estimate |-> IF h # <<>> THEN h[Len(h)].total_thoughts ELSE 0]
summary == SummaryOf(thought_history, branches)

\* mutant: the latest record is read by taking it off the history
get_summary_popping ==
    /\ ret' = [op |-> "get_summary", value |-> summary]
    /\ lists' = [lists EXCEPT ![self_thought_history] =
                    IF @ = <<>> THEN @ ELSE SubSeq(@, 1, Len(@) - 1)]
    /\ logged' = NotLogged
    /\ UNCHANGED <<branches, accepted, held_history, held_branches, tasks, search,
                   disable_thought_logging, twin, upstream>>

get_summary ==
    /\ ret' = [op |-> "get_summary", value |-> summary]
    /\ logged' = NotLogged
    /\ UNCHANGED <<lists, branches, accepted, held_history, held_branches, tasks, search,
                   disable_thought_logging, twin, upstream>>

Next == ProcessThought \/ clear_history \/ get_summary

Spec == Init /\ [][Next]_vars

\* the service given thoughts whose numbers repeat, lie beyond the history or
\* refer to records that are not there
ProcessThoughtReferences == ProcessThoughtOn(ReferenceInputs)
NextReferences == ProcessThoughtReferences \/ clear_history \/ get_summary
SpecReferences == Init /\ [][NextReferences]_vars

\* the service given payloads whose keys are all in camelCase
SpellingInputs == {Payload(CamelKey, c) : c \in SpellingChoices}
ProcessThoughtSpelling == ProcessThoughtOn(SpellingInputs)
NextSpelling == ProcessThoughtSpelling \/ clear_history \/ get_summary
SpecSpelling == Init /\ [][NextSpelling]_vars

\* the service given records for its branches, and cleared
ProcessThoughtStore == ProcessThoughtOn(StoreInputs)
NextStore == ProcessThoughtStore \/ clear_history
SpecStore == Init /\ [][NextStore]_vars

(***************************************************************************)
(* Two services that differ in disable_thought_logging alone and are given *)
(* the same calls.  A service is the value of its fields; `twin` is one,    *)
(* Self is the service the variables hold.                                  *)
(***************************************************************************)
Self ==
    [disable_thought_logging |-> disable_thought_logging, lists |-> lists,
     branches |-> branches, ret |-> ret, logged |-> logged]

\* the service s after a call of process_thought that did p
Served(s, p) ==
    [s EXCEPT !.lists = p.lists, !.branches = p.branches,
              !.ret = [op |-> "process_thought", value |-> p.value],
              !.logged = p.logged]
process_thought_of(s, input_data) ==
    Served(s, ProcessedBy(s.disable_thought_logging, s.lists, s.branches, input_data))
\* the service s after clear_history; nobody holds a list of s
clear_history_of(s) ==
    [s EXCEPT !.lists = Collect([s.lists EXCEPT ![self_thought_history] = <<>>], <<>>,
                                [held |-> FALSE, ref |-> self_thought_history],
                                [held |-> FALSE, items |-> <<>>]),
              !.branches = <<>>,
              !.ret = [op |-> "clear_history", value |-> PyNone],
              !.logged = Info(<<"Thought history and branches cleared">>)]
\* the service s after get_summary
get_summary_of(s) ==
    [s EXCEPT !.ret = [op |-> "get_summary",
                       value |-> SummaryOf(s.lists[self_thought_history], s.branches)],
              !.logged = NotLogged]

\* the call left the first service as s and the second as t
Both(s, t) ==
    /\ lists' = s.lists
    /\ branches' = s.branches
    /\ ret' = s.ret
    /\ logged' = s.logged
    /\ twin' = t
    /\ UNCHANGED <<held_history, held_branches, tasks, search,
                   disable_thought_logging, upstream>>

process_thought_both ==
    \E input_data \in LoggingInputs :
        /\ Len(thought_history) < MaxHist \/ ~validated[input_data].ok
        /\ Both(process_thought_of(Self, input_data), process_thought_of(twin, input_data))
        /\ accepted' = IF validated[input_data].ok
                       THEN Append(accepted, validated[input_data].value)
                       ELSE accepted
clear_history_both ==
    /\ Both(clear_history_of(Self), clear_history_of(twin))
    /\ accepted' = <<>>
get_summary_both ==
    /\ Both(get_summary_of(Self), get_summary_of(twin))
    /\ UNCHANGED accepted

NextLogging == process_thought_both \/ clear_history_both \/ get_summary_both
SpecLogging == Init /\ [][NextLogging]_vars

(***************************************************************************)
(* SequentialThinkingService.get_thought_history and a caller that changes *)
(* the list it was given.                                                  *)
(***************************************************************************)
\* mutant: the list itself is returned
list_alias(L, id) == [lists |-> L, ref |-> id]
\* list.copy(): a new list object with the same elements
list_copy(L, id) ==
    [lists |-> L @@ (NewList(L) :> L[id]), ref |-> NewList(L)]

get_thought_history ==
    LET c == list_copy(lists, self_thought_history)
        h == [held |-> TRUE, ref |-> c.ref]
    IN  /\ held_history' = h
        /\ lists' = Collect(c.lists, branches, h, held_branches)
        /\ ret' = [op |-> "get_thought_history", value |-> PyNone]
        /\ logged' = NotLogged
        /\ UNCHANGED <<branches, held_branches, accepted, tasks, search,
                       disable_thought_logging, twin, upstream>>

\* a record the caller made itself
CallerRecord ==
    [thought |-> "Z", thought_number |-> 1, total_thoughts |-> 1,
     next_thought_needed |-> FALSE, is_revision |-> PyNone,
     revises_thought |-> PyNone, branch_from_thought |-> PyNone,
     branch_id |-> PyNone, needs_more_thoughts |-> PyNone]

\* the caller: returned.append(record)
caller_append_history ==
    /\ held_history.held
    /\ Len(lists[held_history.ref]) < MaxHeld
    /\ lists' = [lists EXCEPT ![held_history.ref] = Append(@, CallerRecord)]
    /\ UNCHANGED <<branches, held_history, held_branches, ret, accepted, tasks, search,
                   disable_thought_logging, twin, upstream, logged>>

\* the caller: returned.pop()
caller_pop_history ==
    /\ held_history.held
    /\ lists[held_history.ref] # <<>>
    /\ lists' = [lists EXCEPT ![held_history.ref] = SubSeq(@, 1, Len(@) - 1)]
    /\ UNCHANGED <<branches, held_history, held_branches, ret, accepted, tasks, search,
                   disable_thought_logging, twin, upstream, logged>>

HistoryInputs == PayloadsOf(NeededChoices)
ProcessThoughtHistory == ProcessThoughtOn(HistoryInputs)

NextHistory ==
    \/ ProcessThoughtHistory
    \/ clear_history
    \/ get_thought_history
    \/ caller_append_history
    \/ caller_pop_history

SpecHistory == Init /\ [][NextHistory]_vars

(***************************************************************************)
(* SequentialThinkingService.get_branches and a caller that changes the    *)
(* dictionary it was given, or a list in it.                               *)
(***************************************************************************)
\* dict.copy(): a new dictionary with the same keys, each bound to the same object
dict_copy(d) == d

get_branches ==
    LET h == [held |-> TRUE, items |-> dict_copy(branches)]
    IN  /\ held_branches' = h
        /\ lists' = Collect(lists, branches, held_history, h)
        /\ ret' = [op |-> "get_branches", value |-> PyNone]
        /\ logged' = NotLogged
        /\ UNCHANGED <<branches, held_history, accepted, tasks, search,
                       disable_thought_logging, twin, upstream>>

\* the caller: returned[key].append(record)
caller_append_branch ==
    \E i \in 1..Len(held_branches.items) :
        LET id == held_branches.items[i][2]
        IN  /\ Len(lists[id]) < MaxHeld
            /\ lists' = [lists EXCEPT ![id] = Append(@, CallerRecord)]
            /\ UNCHANGED <<branches, held_history, held_branches, ret, accepted, tasks, search,
                           disable_thought_logging, twin, upstream, logged>>

\* the caller: del returned[key]
caller_del_branch ==
    \E i \in 1..Len(held_branches.items) :
        LET h == [held_branches EXCEPT
                    !.items = SubSeq(@, 1, i - 1) \o SubSeq(@, i + 1, Len(@))]
        IN  /\ held_branches' = h
            /\ lists' = Collect(lists, branches, held_history, h)
            /\ UNCHANGED <<branches, held_history, ret, accepted, tasks, search,
                           disable_thought_logging, twin, upstream, logged>>

BranchInputs ==
    PayloadsOf({[BaseChoice EXCEPT !.branch_from_thought = bb[1], !.branch_id = bb[2]] :
                  bb \in {<<PyInt(1), PyStr("x")>>, <<PyInt(1), PyStr("y")>>,
                          <<PyInt(0), PyStr("x")>>}})
ProcessThoughtBranches == ProcessThoughtOn(BranchInputs)

NextBranches ==
    \/ ProcessThoughtBranches
    \/ clear_history
    \/ get_branches
    \/ caller_append_branch
    \/ caller_del_branch

SpecBranches == Init /\ [][NextBranches]_vars

(***************************************************************************)
(* The tools of SequentialThinkingToolProvider: sequential_thinking,       *)
(* get_thought_summary, clear_thought_history.  Each returns a dictionary. *)
(***************************************************************************)
\* x or y
Or(x, y) == IF Truthy(x) THEN x ELSE y

\* the dictionary sequential_thinking builds from the ThoughtResponse
ResponseDict(response) ==
    [thought_number |-> response.thought_number,
     total_thoughts |-> response.total_thoughts,
     next_thought_needed |-> response.next_thought_needed,
     branches |-> response.branches,
     thought_history_length |-> response.thought_history_length,
     error |-> response.error,
     status |-> Or(response.status, PyStr("success"))]

\* the dictionary a tool returns from its except block
ErrorDict(e) == [error |-> PyStr(e), status |-> PyStr("failed")]

\* the tool called with the arguments c: the input_data it builds, the call of
\* process_thought and the dictionary returned
sequential_thinking(c) ==
    \E p \in {Processed(lists, branches, ToolPayload(c))} :
        /\ lists' = p.lists
        /\ branches' = p.branches
        /\ ret' = [op |-> "sequential_thinking",
                   value |-> IF p.raised THEN ErrorDict(p.value.exception)
                             ELSE ResponseDict(p.value)]
        /\ accepted' = IF p.appended
                       THEN Append(accepted, validated[ToolPayload(c)].value)
                       ELSE accepted
        /\ logged' = IF p.raised
                     THEN Error(<<"Error in sequential_thinking tool: ", p.value.exception>>)
                     ELSE p.logged
        /\ UNCHANGED <<held_history, held_branches, tasks, search,
                       disable_thought_logging, twin, upstream>>

\* a call of the tool; a call that would append is not made on a full history
SequentialThinking ==
    \E c \in ToolChoices :
        /\ Len(thought_history) < MaxHist \/ ~validated[ToolPayload(c)].ok
        /\ sequential_thinking(c)

\* summary = self.service.get_summary(); return summary
get_thought_summary ==
    /\ ret' = [op |-> "get_thought_summary", value |-> summary]
    /\ logged' = NotLogged
    /\ UNCHANGED <<lists, branches, accepted, held_history, held_branches, tasks, search,
                   disable_thought_logging, twin, upstream>>

\* self.service.clear_history(); return {"status": "success", "message": ...}
clear_thought_history ==
    /\ lists' = Collect([lists EXCEPT ![self_thought_history] = <<>>],
                        <<>>, held_history, held_branches)
    /\ branches' = <<>>
    /\ ret' = [op |-> "clear_thought_history",
               value |-> [status |-> PyStr("success"),
                          message |-> PyStr("Thought history and branches cleared")]]
    /\ accepted' = <<>>
    /\ logged' = Info(<<"Thought history and branches cleared">>)
    /\ UNCHANGED <<held_history, held_branches, tasks, search,
                   disable_thought_logging, twin, upstream>>

\* the payloads given to process_thought itself: no dictionary, a dictionary
\* with no thought, a valid one
ServiceInputs ==
    {NotADict, Payload(SnakeKey, [BaseChoice EXCEPT !.thought = Missing]),
     Payload(SnakeKey, BaseChoice)}
ProcessThoughtService == ProcessThoughtOn(ServiceInputs)

NextTools ==
    \/ ProcessThoughtService
    \/ SequentialThinking
    \/ get_thought_summary
    \/ clear_thought_history

SpecTools == Init /\ [][NextTools]_vars

(***************************************************************************)
(* Concurrent tool invocations.  The tools are coroutines (async def) that *)
(* the server's event loop runs on one thread: a coroutine that has begun  *)
(* keeps the thread until it awaits or returns.  A task's position is      *)
(* "start" before its first statement, "branching" between the append to   *)
(* the history and the `# Handle branching` block, "clear_branches"        *)
(* between the two clear() calls of clear_history.                         *)
(***************************************************************************)
\* at most MaxTasks invocations are in flight
MaxTasks == 2

\* the arguments of the concurrent sequential_thinking calls: a thought on
\* branch "x", one whose branch_id is "", one the validator refuses
ConcurrentChoices ==
    {[ToolChoice EXCEPT !.branch_from_thought = PyInt(1), !.branch_id = PyStr("x")],
     [ToolChoice EXCEPT !.branch_from_thought = PyInt(1), !.branch_id = PyStr("")],
     [ToolChoice EXCEPT !.thought_number = PyInt(0)]}

\* a tool invocation that has not begun; c its arguments, td its validated_input
Task(tool, c) == [tool |-> tool, c |-> c, pc |-> "start", td |-> PyNone]
Invocations ==
    {Task("sequential_thinking", c) : c \in ConcurrentChoices}
        \cup {Task("get_thought_summary", PyNone), Task("clear_thought_history", PyNone)}

\* mutant: the coroutine awaits before the branching block
AwaitsBeforeBranching(tool, pc) == pc = "branching"
\* the coroutine awaits at position pc: no tool body holds an await
Awaits(tool, pc) == FALSE

\* the task has given the thread back to the event loop, or never had it
Suspended(t) == t.pc = "start" \/ Awaits(t.tool, t.pc)

\* the tasks without task i, which has returned
Returned(i) == SubSeq(tasks, 1, i - 1) \o SubSeq(tasks, i + 1, Len(tasks))

\* the server receives a tool call and makes a task of it
call_tool ==
    \E t \in Invocations :
        /\ Len(tasks) < MaxTasks
        /\ tasks' = Append(tasks, t)
        /\ UNCHANGED <<lists, branches, held_history, held_branches, ret, accepted, search,
                       disable_thought_logging, twin, upstream, logged>>

\* sequential_thinking up to self.thought_history.append(validated_input), or
\* to the return of the failed response
thinking_append(i) ==
    LET v == validated[ToolPayload(tasks[i].c)]
    IN  /\ tasks[i].tool = "sequential_thinking"
        /\ tasks[i].pc = "start"
        /\ IF v.ok
           THEN /\ Len(thought_history) < MaxHist
                /\ lists' = AppendHistory(lists, AdjustTotal(v.value))
                /\ tasks' = [tasks EXCEPT ![i].pc = "branching",
                                          ![i].td = AdjustTotal(v.value)]
                /\ accepted' = Append(accepted, v.value)
                /\ UNCHANGED <<branches, ret, logged>>
           ELSE /\ tasks' = Returned(i)
                /\ ret' = [op |-> "sequential_thinking",
                           value |-> ResponseDict(
                                        except_block(lists, branches, v.error).value)]
                /\ logged' = except_block(lists, branches, v.error).logged
                /\ UNCHANGED <<lists, branches, accepted>>
        /\ UNCHANGED <<held_history, held_branches, search,
                       disable_thought_logging, twin, upstream>>

\* sequential_thinking from the `# Handle branching` block to its return
thinking_branch(i) ==
    /\ tasks[i].tool = "sequential_thinking"
    /\ tasks[i].pc = "branching"
    /\ \E hb \in {HandleBranching(lists, branches, tasks[i].td)} :
          /\ lists' = hb.lists
          /\ branches' = hb.branches
          /\ ret' = [op |-> "sequential_thinking",
                     value |-> ResponseDict(
                                  SuccessResponse(tasks[i].td, hb.lists, hb.branches))]
    /\ tasks' = Returned(i)
    /\ logged' = LogThought(disable_thought_logging, tasks[i].td).logged
    /\ UNCHANGED <<held_history, held_branches, accepted, search,
                   disable_thought_logging, twin, upstream>>

\* clear_thought_history up to self.thought_history.clear()
clearing_history(i) ==
    /\ tasks[i].tool = "clear_thought_history"
    /\ tasks[i].pc = "start"
    /\ lists' = [lists EXCEPT ![self_thought_history] = <<>>]
    /\ tasks' = [tasks EXCEPT ![i].pc = "clear_branches"]
    /\ accepted' = <<>>
    /\ UNCHANGED <<branches, held_history, held_branches, ret, search,
                   disable_thought_logging, twin, upstream, logged>>

\* clear_thought_history from self.branches.clear() to its return
clearing_branches(i) ==
    /\ tasks[i].tool = "clear_thought_history"
    /\ tasks[i].pc = "clear_branches"
    /\ lists' = Collect(lists, <<>>, held_history, held_branches)
    /\ branches' = <<>>
    /\ ret' = [op |-> "clear_thought_history",
               value |-> [status |-> PyStr("success"),
                          message |-> PyStr("Thought history and branches cleared")]]
    /\ tasks' = Returned(i)
    /\ logged' = Info(<<"Thought history and branches cleared">>)
    /\ UNCHANGED <<held_history, held_branches, accepted, search,
                   disable_thought_logging, twin, upstream>>

\* get_thought_summary, which reads the store and returns
summarizing(i) ==
    /\ tasks[i].tool = "get_thought_summary"
    /\ ret' = [op |-> "get_thought_summary", value |-> summary]
    /\ tasks' = Returned(i)
    /\ logged' = NotLogged
    /\ UNCHANGED <<lists, branches, held_history, held_branches, accepted, search,
                   disable_thought_logging, twin, upstream>>

\* the event loop may give the thread to task i: every other task is suspended
MayRun(i) == \A j \in (1..Len(tasks)) \ {i} : Suspended(tasks[j])

\* the event loop runs a task that may run to its next position
RunThinkingAppend == \E i \in 1..Len(tasks) : MayRun(i) /\ thinking_append(i)
RunThinkingBranch == \E i \in 1..Len(tasks) : MayRun(i) /\ thinking_branch(i)
RunClearingHistory == \E i \in 1..Len(tasks) : MayRun(i) /\ clearing_history(i)
RunClearingBranches == \E i \in 1..Len(tasks) : MayRun(i) /\ clearing_branches(i)
RunSummarizing == \E i \in 1..Len(tasks) : MayRun(i) /\ summarizing(i)

NextConcurrent ==
    \/ call_tool
    \/ RunThinkingAppend
    \/ RunThinkingBranch
    \/ RunClearingHistory
    \/ RunClearingBranches
    \/ RunSummarizing

SpecConcurrent == Init /\ [][NextConcurrent]_vars

(***************************************************************************)
(* ArXivService: the searches that take max_results, and the tools of      *)
(* ArXivToolProvider that call them.  What is modelled of a search is the  *)
(* max_results of the arxiv.Search it builds; the query text and the sort  *)
(* order are left out.  The upstream query returns papers or raises.       *)
(***************************************************************************)
\* min(a, b)
min(a, b) == IF b < a THEN b ELSE a

\* the max_results a caller supplies; Missing when the argument is left out
Supplied ==
    {PyInt(n) : n \in {-1, 0, 1, 2, 10, 20, 49, 50, 51, 100, 199, 200, 201, 500, 1000}}
        \cup {Missing}

\* the argument, or the default of the signature
Argument(x, default) == IF x = Missing THEN default ELSE x.v

\* max_results = min(max_results, 50); search = arxiv.Search(..., max_results=max_results)
search_papers(max_results) ==
    [op |-> "search_papers", max_results |-> min(max_results, 50)]
get_recent_papers(max_results) ==
    [op |-> "get_recent_papers", max_results |-> min(max_results, 50)]
get_papers_by_author(max_results) ==
    [op |-> "get_papers_by_author", max_results |-> min(max_results, 50)]
\* mutant: the phrase search passes max_results on as given
search_by_phrase_uncapped(max_results) ==
    [op |-> "search_by_phrase", max_results |-> max_results]
search_by_phrase(max_results) ==
    [op |-> "search_by_phrase", max_results |-> min(max_results, 50)]
\* max_results = min(max_results, 200)
advanced_search(max_results) ==
    [op |-> "advanced_search", max_results |-> min(max_results, 200)]

\* what search.results() does: it yields the papers, or the query fails
Upstream == {"papers", "raises"}

\* the arxiv.Search s, built for the max_results x the caller supplied
Built(x, s) == [op |-> s.op, asked |-> x, max_results |-> s.max_results]

\* the JSON text a tool returns: the papers, or the error when the query raised
Json(outcome, failure) ==
    IF outcome = "raises"
    THEN [error |-> PyStr(failure), papers |-> <<>>]
    ELSE [error |-> PyNone, papers |-> outcome]

\* the tools of ArXivToolProvider that take max_results: each calls its service
\* method inside try/except and returns JSON text
search_arxiv ==
    \E x \in Supplied : \E outcome \in Upstream :
        /\ search' = Built(x, search_papers(Argument(x, 10)))
        /\ ret' = [op |-> "search_arxiv", value |-> Json(outcome, "Search failed: ")]
        /\ logged' = NotLogged
        /\ UNCHANGED <<lists, branches, held_history, held_branches, accepted, tasks,
                       disable_thought_logging, twin, upstream>>
get_recent_papers_tool ==
    \E x \in Supplied : \E outcome \in Upstream :
        /\ search' = Built(x, get_recent_papers(Argument(x, 20)))
        /\ ret' = [op |-> "get_recent_papers", value |-> Json(outcome, "Failed to fetch recent papers: ")]
        /\ logged' = NotLogged
        /\ UNCHANGED <<lists, branches, held_history, held_branches, accepted, tasks,
                       disable_thought_logging, twin, upstream>>
get_papers_by_author_tool ==
    \E x \in Supplied : \E outcome \in Upstream :
        /\ search' = Built(x, get_papers_by_author(Argument(x, 10)))
        /\ ret' = [op |-> "get_papers_by_author", value |-> Json(outcome, "Failed to fetch papers by author: ")]
        /\ logged' = NotLogged
        /\ UNCHANGED <<lists, branches, held_history, held_branches, accepted, tasks,
                       disable_thought_logging, twin, upstream>>
advanced_search_tool ==
    \E x \in Supplied : \E outcome \in Upstream :
        /\ search' = Built(x, advanced_search(Argument(x, 10)))
        /\ ret' = [op |-> "advanced_search", value |-> Json(outcome, "Advanced search failed: ")]
        /\ logged' = NotLogged
        /\ UNCHANGED <<lists, branches, held_history, held_branches, accepted, tasks,
                       disable_thought_logging, twin, upstream>>
search_by_phrase_tool ==
    \E x \in Supplied : \E outcome \in Upstream :
        /\ search' = Built(x, search_by_phrase(Argument(x, 10)))
        /\ ret' = [op |-> "search_by_phrase", value |-> Json(outcome, "Phrase search failed: ")]
        /\ logged' = NotLogged
        /\ UNCHANGED <<lists, branches, held_history, held_branches, accepted, tasks,
                       disable_thought_logging, twin, upstream>>

NextArXiv ==
    \/ search_arxiv
    \/ get_recent_papers_tool
    \/ get_papers_by_author_tool
    \/ advanced_search_tool
    \/ search_by_phrase_tool

SpecArXiv == Init /\ [][NextArXiv]_vars

(***************************************************************************)
(* ArXivService.get_trending_categories and its tool.  A query is answered *)
(* by the papers search.results() yields, newest first, and by whether the *)
(* generator then raises instead of ending.                                *)
(***************************************************************************)
\* arXiv holds at most MaxPapers papers in the dates asked for
MaxPapers == 3

\* result.categories of the i-th newest paper
Categories(i) ==
    CASE i % 3 = 1 -> <<"cs.AI">>
      [] i % 3 = 2 -> <<"cs.AI", "cs.LG">>
      [] OTHER -> <<"cs.LG">>
Paper(i) == [entry_id |-> i, categories |-> Categories(i)]

\* what a query may answer: the k newest papers, and then the end or an exception
Answers ==
    {[results |-> [i \in 1..k |-> Paper(i)], raises |-> b] :
        k \in 0..MaxPapers, b \in BOOLEAN}
\* the min_papers a caller supplies; 5 is the default
MinPapers == {1, 2, 3, 5}

\* for category in result.categories:
\*     category_counts[category] = category_counts.get(category, 0) + 1
RECURSIVE CountCategories(_, _)
CountCategories(categories, category_counts) ==
    IF categories = <<>> THEN category_counts
    ELSE CountCategories(
            Tail(categories),
            DictSet(category_counts, Head(categories),
                    (IF HasKey(category_counts, Head(categories))
                     THEN DictGet(category_counts, Head(categories)) ELSE 0) + 1))
\* for result in search.results(): the counts after the results that were yielded
RECURSIVE CountResults(_, _)
CountResults(results, category_counts) ==
    IF results = <<>> THEN category_counts
    ELSE CountResults(Tail(results),
                      CountCategories(Head(results).categories, category_counts))

\* {cat: count for cat, count in category_counts.items() if count >= min_papers}
RECURSIVE Trending(_, _)
Trending(items, min_papers) ==
    IF items = <<>> THEN <<>>
    ELSE (IF Head(items)[2] >= min_papers THEN <<Head(items)>> ELSE <<>>)
            \o Trending(Tail(items), min_papers)

\* sorted(..., key=lambda x: x[1], reverse=True): the item goes behind the items
\* already placed whose count is not smaller
Placed(sorted, item) ==
    LET at == Cardinality({i \in 1..Len(sorted) : sorted[i][2] >= item[2]})
    IN  SubSeq(sorted, 1, at) \o <<item>> \o SubSeq(sorted, at + 1, Len(sorted))
RECURSIVE SortedByCount(_, _)
SortedByCount(items, sorted) ==
    IF items = <<>> THEN sorted
    ELSE SortedByCount(Tail(items), Placed(sorted, Head(items)))

\* the return of the method once the loops left category_counts
Returned_trending(category_counts, min_papers) ==
    [raised |-> FALSE,
     value |-> SortedByCount(Trending(category_counts, min_papers), <<>>)]
\* the method, when the main query answers `main` and the 7-day query `recent`:
\* the loop over the main results, the except block with the second loop when
\* the first raised, and `return {}` when the second raised too
get_trending_categories(main, recent, min_papers) ==
    IF ~main.raises
    THEN Returned_trending(CountResults(main.results, <<>>), min_papers)
    ELSE IF ~recent.raises
    THEN Returned_trending(
            CountResults(recent.results, CountResults(main.results, <<>>)), min_papers)
    ELSE [raised |-> FALSE, value |-> <<>>]

\* the JSON text the tool returns: the mapping, or the error of its except block
TrendingJson(r, min_papers) ==
    IF r.raised
    THEN [error |-> PyStr("Failed to fetch trending categories: " \o r.error),
          min_papers |-> min_papers, trending_categories |-> <<>>]
    ELSE [error |-> PyNone, min_papers |-> min_papers, trending_categories |-> r.value]

\* the tool get_trending_categories: the last arxiv.Search built is the main one
\* (max_results 500) or, when that raised, the 7-day one (max_results 200)
get_trending_categories_tool ==
    \E main \in Answers : \E recent \in Answers : \E min_papers \in MinPapers :
        /\ main.raises \/ recent = NotAsked
        /\ upstream' = [main |-> main, recent |-> recent, min_papers |-> min_papers]
        /\ search' = [op |-> "get_trending_categories", asked |-> PyNone,
                      max_results |-> IF main.raises THEN 200 ELSE 500]
        /\ ret' = [op |-> "get_trending_categories",
                   value |-> TrendingJson(
                                get_trending_categories(main, recent, min_papers),
                                min_papers)]
        /\ logged' = NotLogged
        /\ UNCHANGED <<lists, branches, held_history, held_branches, accepted, tasks,
                       disable_thought_logging, twin>>

NextTrending == get_trending_categories_tool
SpecTrending == Init /\ [][NextTrending]_vars

(***************************************************************************)
(* What the claims speak of.                                               *)
(***************************************************************************)
\* the value a payload gives a field under either spelling of its key, or Missing
Given(input_data, f) ==
    LET at == {i \in 1..Len(input_data.items) :
                  input_data.items[i][1] \in {SnakeKey[f], CamelKey[f]}}
    IN  IF at = {} THEN Missing ELSE input_data.items[CHOOSE i \in at : TRUE][2]

IntBelowOne(x) == x.t = "int" /\ x.v < 1

\* the failures the specification lists: no dictionary, a required field missing,
\* thought_number, total_thoughts, revises_thought or branch_from_thought below 1
FailsValidation(input_data) ==
    \/ input_data.kind # "dict"
    \/ \E f \in {"thought", "thought_number", "total_thoughts", "next_thought_needed"} :
          Given(input_data, f) = Missing
    \/ \E f \in {"thought_number", "total_thoughts", "revises_thought",
                 "branch_from_thought"} :
          IntBelowOne(Given(input_data, f))

Failed(r) == r.op = "process_thought" /\ r.value.status = PyStr("failed")
Succeeded(r) == r.op = "process_thought" /\ r.value.status = PyNone

\* self.branches with every list by value
StoreBranches == Deep(lists, branches)
\* the records of branch b, none when b is no key
BranchOf(b) == IF HasKey(branches, b) THEN lists[DictGet(branches, b)] ELSE <<>>
\* the branch identifiers the payloads carry
BranchIds == {"x", "y", ""}

Max(a, b) == IF a > b THEN a ELSE b
Last(q) == q[Len(q)]

\* FailsValidation of every payload
listed == [input_data \in Inputs |-> FailsValidation(input_data)]

\* the step is a call of process_thought
IsProcessThought == \E input_data \in Inputs : process_thought(input_data)

\* C1: a process_thought call whose payload fails validation (one of the listed
\* failures, or any call answered "failed") leaves thought_history and branches,
\* with every list in it, exactly as they were: every step leaves them unchanged
\* or is no such call.
C1_FailedValidationLeavesStore ==
    [][\/ /\ thought_history' = thought_history
          /\ StoreBranches' = StoreBranches
       \/ \A input_data \in Inputs :
             ~((listed[input_data] \/ Failed(ret')) /\ process_thought(input_data))]_vars

\* a failed call answered on a store that holds two records and a branch
C1_Witness ==
    /\ Failed(ret)
    /\ ret.value.error = PyStr("Invalid thought data: validation error for ThoughtData")
    /\ Len(thought_history) = 2
    /\ branches # <<>>

\* C2: for every branch identifier b the validator accepts, branches[b] holds
\* exactly the records accepted since the last clear with branch_id = b and a
\* non-null branch_from_thought, in arrival order (so a record with only one of
\* the two fields is in history and in no branch).
C2_BranchMembership ==
    /\ Len(accepted) = Len(thought_history)
    /\ \A b \in BranchIds :
          LET at == {i \in 1..Len(accepted) :
                        /\ accepted[i].branch_id = PyStr(b)
                        /\ accepted[i].branch_from_thought # PyNone}
              both == SelectSeq([i \in 1..Len(accepted) |-> i], LAMBDA i : i \in at)
          IN  BranchOf(b) = [k \in 1..Len(both) |-> thought_history[both[k]]]

\* the mapping a caller holds, with every list by value
HeldBranches == Deep(lists, held_branches.items)

\* C3: the mapping get_branches returned is an isolated snapshot: a later
\* process_thought or clear_history changes neither the mapping nor a sequence in
\* it, and the caller's changes to the mapping or to a sequence in it do not
\* change the store's branches.
C3_BranchesSnapshotIsolated ==
    [][/\ (held_branches.held /\ (ProcessThoughtBranches \/ clear_history))
             => HeldBranches' = HeldBranches
       /\ (caller_append_branch \/ caller_del_branch)
             => (StoreBranches' = StoreBranches /\ thought_history' = thought_history)]_vars

\* the list a caller holds, by value
HeldHistory == lists[held_history.ref]

\* C4: the sequence get_thought_history returned is an isolated snapshot: a later
\* process_thought or clear_history changes neither its length nor its elements,
\* and the caller's append or removal does not change the store's history.
C4_HistorySnapshotIsolated ==
    [][/\ (held_history.held /\ (ProcessThoughtHistory \/ clear_history))
             => (held_history' = held_history /\ HeldHistory' = HeldHistory)
       /\ (caller_append_history \/ caller_pop_history)
             => (thought_history' = thought_history /\ StoreBranches' = StoreBranches)]_vars

\* the caller holds a two-record snapshot it has added a record to, and the store
\* has been cleared since
C4_Witness ==
    /\ held_history.held
    /\ Len(HeldHistory) = 3
    /\ HeldHistory[3] = CallerRecord
    /\ HeldHistory[1] # CallerRecord
    /\ thought_history = <<>>
    /\ ret.op = "clear_history"

\* C5: a process_thought call never shortens thought_history; it lengthens it by
\* exactly 1 when it returns success and leaves its length unchanged when the
\* payload fails validation: every step does so or is no process_thought call.
C5_MonotonicHistory ==
    [][\/ /\ Succeeded(ret')
          /\ Len(thought_history') = Len(thought_history) + 1
          /\ \A input_data \in Inputs :
                ~(listed[input_data] /\ process_thought(input_data))
       \/ /\ Failed(ret')
          /\ Len(thought_history') = Len(thought_history)
       \/ ~IsProcessThought]_vars

\* a failed call answered after two successful ones
C5_Witness ==
    /\ Failed(ret)
    /\ Len(accepted) = 2
    /\ Len(thought_history) = 2
    /\ ret.value.thought_history_length = 2

\* C6: the record stored for an accepted submission with thought_number n and
\* total_thoughts t has total_thoughts n when n > t and t when n <= t, and
\* thought_number as submitted.
C6_TotalThoughtsFloor ==
    /\ Len(thought_history) = Len(accepted)
    /\ \A i \in 1..Len(accepted) :
          LET n == accepted[i].thought_number
              t == accepted[i].total_thoughts
          IN  /\ thought_history[i].thought_number = n
              /\ thought_history[i].total_thoughts = IF n > t THEN n ELSE t

\* the history holds a record whose total was raised and one with n < t
C6_Witness ==
    /\ \E i \in 1..Len(accepted) :
          accepted[i].thought_number > accepted[i].total_thoughts
    /\ \E i \in 1..Len(accepted) :
          accepted[i].thought_number < accepted[i].total_thoughts

\* the summary of a freshly constructed service
EmptySummary ==
    [total_thoughts |-> 0, branches |-> <<>>, branch_count |-> 0,
     latest_thought_number |-> 0, latest_total_estimate |-> 0]

\* C7: after clear_history thought_history and branches are empty, get_summary
\* reports zero thoughts, zero branches and 0 for both latest numbers, and the
\* store is the store of a freshly constructed service.
C7_ClearResets ==
    ret.op = "clear_history" =>
        /\ thought_history = <<>>
        /\ branches = <<>>
        /\ summary = EmptySummary
        /\ accepted = <<>>
        /\ lists = (self_thought_history :> <<>>)

\* clear_history has returned
C7_Witness ==
    /\ ret.op = "clear_history"
    /\ thought_history = <<>>
    /\ summary.branch_count = 0

\* C8: a failed response has thought_number 0, total_thoughts 0,
\* next_thought_needed false, no branches, a non-empty error and the history
\* length from before the call: every step that ends in a failed response ends
\* in such a response or is no process_thought call.
C8_FailureResponseShape ==
    [][\/ ~Failed(ret')
       \/ /\ ret'.value.thought_number = 0
          /\ ret'.value.total_thoughts = 0
          /\ ret'.value.next_thought_needed = FALSE
          /\ ret'.value.branches = <<>>
          /\ ret'.value.error.t = "str"
          /\ ret'.value.error.v # ""
          /\ ret'.value.thought_history_length = Len(thought_history)
       \/ ~IsProcessThought]_vars

\* a payload that is no dictionary was refused by a store that holds a branch
C8_Witness ==
    /\ Failed(ret)
    /\ ret.value.error = PyStr("Invalid thought data: Input must be a dictionary")
    /\ ret.value.branches = <<>>
    /\ Len(branches) = 1
    /\ ret.value.thought_history_length = 1

\* C9: a successful response carries the submitted thought_number and
\* next_thought_needed, the larger of the two submitted numbers as total_thoughts,
\* the keys of branches after the call and the history length after the append.
C9_SuccessResponse ==
    Succeeded(ret) =>
        /\ accepted # <<>>
        /\ ret.value.thought_number = Last(accepted).thought_number
        /\ ret.value.next_thought_needed = Last(accepted).next_thought_needed
        /\ ret.value.total_thoughts =
              Max(Last(accepted).thought_number, Last(accepted).total_thoughts)
        /\ ret.value.branches = DictKeys(branches)
        /\ ret.value.thought_history_length = Len(thought_history)

\* the call answered has registered the second branch with its own record
C9_Witness ==
    /\ Succeeded(ret)
    /\ ret.value.branches = <<"x", "y">>
    /\ BranchOf("y") = <<Last(thought_history)>>
    /\ ret.value.thought_history_length = 2

\* C10: get_summary returns the length of history as total_thoughts, the number
\* of distinct branch identifiers as branch_count and as the length of branches,
\* and the thought_number and stored total_thoughts of the last record as
\* latest_thought_number and latest_total_estimate, both 0 on an empty history.
C10_Summary ==
    ret.op = "get_summary" =>
        /\ ret.value.total_thoughts = Len(accepted)
        /\ ret.value.branches = DictKeys(branches)
        /\ ret.value.branch_count = Cardinality({branches[i][1] : i \in 1..Len(branches)})
        /\ ret.value.branch_count = Len(ret.value.branches)
        /\ ret.value.latest_thought_number =
              IF accepted = <<>> THEN 0 ELSE Last(accepted).thought_number
        /\ ret.value.latest_total_estimate =
              IF accepted = <<>> THEN 0
              ELSE Max(Last(accepted).thought_number, Last(accepted).total_thoughts)

\* a summary of three records, the last unlike the first, and two branches
C10_Witness ==
    /\ ret.op = "get_summary"
    /\ ret.value.total_thoughts = 3
    /\ ret.value.branch_count = 2
    /\ ret.value.latest_thought_number # thought_history[1].thought_number
    /\ ret.value.latest_total_estimate # thought_history[1].total_thoughts

\* C11: get_summary is a pure read: a step that returns a summary leaves
\* thought_history and branches, with every list on the heap, as they were, in
\* every state (the empty store too), and when the call before it was a
\* get_summary as well, with no process_thought or clear_history between the
\* two, it returns the same summary.
C11_SummaryPureRead ==
    [][ret'.op = "get_summary" =>
          /\ thought_history' = thought_history
          /\ StoreBranches' = StoreBranches
          /\ lists' = lists
          /\ branches' = branches
          /\ (ret.op = "get_summary" => ret'.value = ret.value)]_vars

\* a summary was returned of a store with two records and a branch, and the
\* store still holds them
C11_Witness ==
    /\ ret.op = "get_summary"
    /\ ret.value.total_thoughts = 2
    /\ Len(thought_history) = 2
    /\ ret.value.branches = <<"x">>
    /\ BranchOf("x") = <<thought_history[2]>>

\* the payloads with a failure the specification lists
ListedInputs == {input_data \in Inputs : listed[input_data]}

\* C12: process_thought returns a failed response and stores nothing whenever the
\* payload lacks thought, thought_number, total_thoughts or next_thought_needed,
\* or has thought_number < 1, total_thoughts < 1, a present revises_thought < 1
\* or a present branch_from_thought < 1: in every state, the call with such a
\* payload appends nothing, leaves every list and the branches as they are and
\* returns a response whose status is "failed".
C12_ListedFailuresFail ==
    \A input_data \in ListedInputs :
        \E p \in {Processed(lists, branches, input_data)} :
            /\ ~p.appended
            /\ p.lists = lists
            /\ p.branches = branches
            /\ ~p.raised
            /\ p.value.status = PyStr("failed")

\* the response is the failed response to a payload with a listed failure, given
\* by a store that holds a record in a branch
C12_Witness ==
    /\ Failed(ret)
    /\ \E input_data \in Inputs :
          /\ listed[input_data]
          /\ Given(input_data, "branch_from_thought") = PyInt(0)
          /\ ret.value = Processed(lists, branches, input_data).value
    /\ Len(thought_history) = 1
    /\ BranchOf("y") = thought_history

\* the structural rules of the specification: a dictionary with a text thought,
\* whole numbers >= 1 as thought_number and total_thoughts, a truth value as
\* next_thought_needed, and every optional field absent, null or of its type,
\* the two optional numbers >= 1
StructurallyValid(input_data) ==
    /\ input_data.kind = "dict"
    /\ Given(input_data, "thought").t = "str"
    /\ \A f \in {"thought_number", "total_thoughts"} :
          Given(input_data, f).t = "int" /\ Given(input_data, f).v >= 1
    /\ Given(input_data, "next_thought_needed").t = "bool"
    /\ \A f \in {"is_revision", "needs_more_thoughts"} :
          Given(input_data, f).t \in {"missing", "none", "bool"}
    /\ \A f \in {"revises_thought", "branch_from_thought"} :
          \/ Given(input_data, f).t \in {"missing", "none"}
          \/ Given(input_data, f).t = "int" /\ Given(input_data, f).v >= 1
    /\ Given(input_data, "branch_id").t \in {"missing", "none", "str"}

\* C13: acceptance depends on the payload alone: in every reachable state, a
\* call of process_thought appends a record and returns success exactly when its
\* payload is structurally valid, whatever the history holds: a thought_number
\* far beyond the history length, one already used, a revises_thought or
\* branch_from_thought that names the record itself, a later record or none.
C13_AcceptanceIgnoresStore ==
    \A input_data \in Inputs \cup ReferenceInputs :
        \E p \in {Processed(lists, branches, input_data)} :
            /\ p.appended = StructurallyValid(input_data)
            /\ ~p.raised
            /\ p.appended =>
                  /\ p.value.status = PyNone
                  /\ Len(p.lists[self_thought_history]) = Len(thought_history) + 1
            /\ ~p.appended => p.value.status = PyStr("failed")

\* the history holds thought 9 as its first record, then thought 1 revising
\* itself, then a second thought 1 that branches from thought 2, which is no
\* record
C13_Witness ==
    /\ Len(thought_history) = 3
    /\ thought_history[1].thought_number = 9
    /\ thought_history[2].thought_number = 1
    /\ thought_history[2].revises_thought = PyInt(1)
    /\ thought_history[3].thought_number = 1
    /\ thought_history[3].branch_from_thought = PyInt(2)
    /\ BranchOf("x") = <<thought_history[3]>>
    /\ Succeeded(ret)

\* C14: for every payload, the call with the camelCase keys (thoughtNumber,
\* totalThoughts, nextThoughtNeeded, isRevision, revisesThought,
\* branchFromThought, branchId, needsMoreThoughts) and the call with the
\* snake_case keys and the same values, made in the same state, return the same
\* response and leave the same history and the same branches.
C14_SpellingsAgree ==
    \A c \in Choices \cup SpellingChoices :
        \E camel \in {Processed(lists, branches, Payload(CamelKey, c))} :
        \E snake \in {Processed(lists, branches, Payload(SnakeKey, c))} :
            /\ camel.value = snake.value
            /\ camel.lists = snake.lists
            /\ camel.branches = snake.branches
            /\ camel.appended = snake.appended

\* three payloads in camelCase were accepted; the last carried every optional
\* field and its record holds them all
C14_Witness ==
    /\ Len(thought_history) = 3
    /\ Succeeded(ret)
    /\ thought_history[1].is_revision = PyBool(FALSE)
    /\ thought_history[2].branch_id = PyStr("y")
    /\ thought_history[3].is_revision = PyBool(TRUE)
    /\ thought_history[3].revises_thought = PyInt(1)
    /\ thought_history[3].branch_from_thought = PyInt(1)
    /\ thought_history[3].branch_id = PyStr("x")
    /\ thought_history[3].needs_more_thoughts = PyBool(TRUE)
    /\ thought_history[3].next_thought_needed = FALSE
    /\ ret.value.branches = <<"y", "x">>

\* the fields of a ThoughtResponse, which are the keys of the dictionary the
\* sequential_thinking tool makes of it
ResponseFields ==
    {"thought_number", "total_thoughts", "next_thought_needed", "branches",
     "thought_history_length", "error", "status"}

\* C15: no exception escapes a public operation: every call of process_thought
\* returns a ThoughtResponse, whatever the input and the state; the tools
\* sequential_thinking, get_thought_summary and clear_thought_history return a
\* dictionary; and the status sequential_thinking returns is "success" when the
\* call appended one record to the history and "failed" when it appended none.
C15_NoExceptionEscapes ==
    [][/\ ret'.op = "process_thought" => DOMAIN ret'.value = ResponseFields
       /\ ret'.op = "sequential_thinking" =>
             /\ DOMAIN ret'.value \in {ResponseFields, {"error", "status"}}
             /\ \/ /\ ret'.value.status = PyStr("success")
                   /\ Len(thought_history') = Len(thought_history) + 1
                   /\ SubSeq(thought_history', 1, Len(thought_history)) = thought_history
                   /\ Len(accepted') = Len(accepted) + 1
                \/ /\ ret'.value.status = PyStr("failed")
                   /\ thought_history' = thought_history
                   /\ accepted' = accepted
       /\ ret'.op = "get_thought_summary" =>
             DOMAIN ret'.value = {"total_thoughts", "branches", "branch_count",
                                  "latest_thought_number", "latest_total_estimate"}
       /\ ret'.op = "clear_thought_history" =>
             DOMAIN ret'.value = {"status", "message"}]_vars

\* the tool has answered "failed", with an error text, to a store of two records
\* that success answers put there
C15_Witness ==
    /\ ret.op = "sequential_thinking"
    /\ ret.value.status = PyStr("failed")
    /\ ret.value.error.t = "str"
    /\ ret.value.error.v # ""
    /\ ret.value.thought_history_length = 2
    /\ Len(thought_history) = 2
    /\ Len(accepted) = 2

\* the elements of a sequence
Range(q) == {q[i] : i \in 1..Len(q)}

\* no two invocations are between their first and their last statement
CallsDoNotInterleave ==
    Cardinality({i \in 1..Len(tasks) : tasks[i].pc # "start"}) <= 1

\* every record of the history with both branch fields set is in the branch its
\* branch_id names
WholeAppends ==
    \A k \in 1..Len(thought_history) :
        LET r == thought_history[k]
        IN  (r.branch_from_thought # PyNone /\ r.branch_id # PyNone) =>
                r \in Range(BranchOf(r.branch_id.v))

\* every record of a branch is in the history
WholeClears ==
    \A k \in 1..Len(branches) :
        Range(lists[branches[k][2]]) \subseteq Range(thought_history)

\* a get_thought_summary invocation may take the thread
ReaderMayRun ==
    \E i \in 1..Len(tasks) : tasks[i].tool = "get_thought_summary" /\ MayRun(i)

\* C16: when several tool invocations are in flight, process_thought and
\* clear_history never interleave their steps, and a reader never observes a
\* partial append: whenever a reader may run, every record of the history with
\* both branch fields set is in branches[branch_id], and every record of a branch
\* is in the history.
C16_NoPartialAppendObserved ==
    /\ CallsDoNotInterleave
    /\ ReaderMayRun => (WholeAppends /\ WholeClears)

\* the same with "set" read as the code reads it, as not None and not empty
AtomicToolCalls ==
    /\ CallsDoNotInterleave
    /\ ReaderMayRun =>
          /\ WholeClears
          /\ \A k \in 1..Len(thought_history) :
                LET r == thought_history[k]
                IN  (Truthy(r.branch_from_thought) /\ Truthy(r.branch_id)) =>
                        r \in Range(BranchOf(r.branch_id.v))

\* q is the sequence p with elements added at its end, or p
IsPrefix(p, q) == Len(p) <= Len(q) /\ SubSeq(q, 1, Len(p)) = p

\* C17: process_thought only appends: in every state, a call that succeeds
\* leaves a history that is the history before it with one record added at the
\* end, the record submitted (its thought and thought_number as given, whatever
\* the number), and leaves every branch a list that has the branch before the
\* call as a prefix; no earlier record is removed, moved or changed, also when
\* the new record revises it.
C17_OnlyAppends ==
    \A input_data \in Inputs :
        \E p \in {Processed(lists, branches, input_data)} :
            p.appended =>
                \E after \in {p.lists[self_thought_history]} :
                    /\ Len(after) = Len(thought_history) + 1
                    /\ SubSeq(after, 1, Len(thought_history)) = thought_history
                    /\ Last(after).thought = Given(input_data, "thought").v
                    /\ Last(after).thought_number = Given(input_data, "thought_number").v
                    /\ Last(after).revises_thought \in
                          {Given(input_data, "revises_thought"), PyNone}
                    /\ \A k \in 1..Len(branches) :
                          /\ p.branches[k] = branches[k]
                          /\ IsPrefix(lists[branches[k][2]], p.lists[branches[k][2]])
                    /\ Len(p.branches) \in {Len(branches), Len(branches) + 1}

\* two records were appended to branch "x" and then a record that revises
\* thought 1; the history and the branch still hold the two, in arrival order
C17_Witness ==
    /\ Succeeded(ret)
    /\ Len(thought_history) = 3
    /\ thought_history[1].branch_id = PyStr("x")
    /\ thought_history[2].branch_id = PyStr("x")
    /\ thought_history[3].revises_thought = PyInt(1)
    /\ BranchOf("x") = <<thought_history[1], thought_history[2]>>
    /\ ret.value.thought_history_length = 3

\* the place, among the submissions accepted since the last clear, of the first
\* one that named branch b with a branch_from_thought
FirstRegistered(b) ==
    LET at == {i \in 1..Len(accepted) :
                  /\ accepted[i].branch_id = PyStr(b)
                  /\ accepted[i].branch_from_thought # PyNone}
    IN  CHOOSE i \in at : \A j \in at : i <= j

\* C18: the branch identifier lists process_thought and get_summary return are
\* the keys of branches, which hold each registered identifier once, in the
\* order in which the identifiers were first registered since the last clear; a
\* later record on a branch neither moves nor repeats its identifier.
C18_BranchIdsInFirstRegisteredOrder ==
    /\ \A i \in 1..Len(branches) : \A j \in 1..Len(branches) :
          i < j => /\ branches[i][1] # branches[j][1]
                   /\ FirstRegistered(branches[i][1]) < FirstRegistered(branches[j][1])
    /\ \A i \in 1..Len(branches) :
          lists[branches[i][2]][1] = thought_history[FirstRegistered(branches[i][1])]
    /\ (Succeeded(ret) \/ ret.op = "get_summary") =>
          ret.value.branches = DictKeys(branches)

\* the summary lists "x" before "y" after a record on "x", one on "y" and a
\* second on "x"
C18_Witness ==
    /\ ret.op = "get_summary"
    /\ ret.value.branches = <<"x", "y">>
    /\ Len(thought_history) = 3
    /\ thought_history[2].branch_id = PyStr("y")
    /\ thought_history[3].branch_id = PyStr("x")
    /\ Len(BranchOf("x")) = 2

\* every record of the history has a thought that is not the empty text
StoredThoughtsNonEmpty ==
    \A i \in 1..Len(thought_history) : thought_history[i].thought # ""

\* every record of the history or of a branch that has a branch_id has one that
\* is not the empty text
StoredBranchIdsNonEmpty ==
    \A n \in DOMAIN lists : \A i \in 1..Len(lists[n]) :
        lists[n][i].branch_id # PyNone => lists[n][i].branch_id.v # ""

\* C19: every record in the history has a non-empty thought, and every stored
\* record that has a branch_id has a non-empty one: a submission whose thought
\* or branch_id is "" is refused and not stored.
C19_NoEmptyText == StoredThoughtsNonEmpty /\ StoredBranchIdsNonEmpty

\* C20: for every max_results a caller supplies, the limit passed to the
\* upstream query is at most 50 in search_papers, get_recent_papers,
\* get_papers_by_author and search_by_phrase, and at most 200 in
\* advanced_search.
C20_LimitsCapped ==
    /\ search.op \in {"search_papers", "get_recent_papers", "get_papers_by_author",
                      "search_by_phrase"} => search.max_results <= 50
    /\ search.op = "advanced_search" => search.max_results <= 200

\* the phrase search was asked for 1000 results and has queried for 50
C20_Witness ==
    /\ search.op = "search_by_phrase"
    /\ search.asked = PyInt(1000)
    /\ search.max_results = 50
    /\ ret.op = "search_by_phrase"

\* p is q with some of its elements left out, the others in q's order
RECURSIVE IsSubsequence(_, _)
IsSubsequence(p, q) ==
    IF p = <<>> THEN TRUE
    ELSE IF q = <<>> THEN FALSE
    ELSE IF Head(p) = Head(q) THEN IsSubsequence(Tail(p), Tail(q))
    ELSE IsSubsequence(p, Tail(q))

\* C22: in every state reached by process_thought and clear_history, every key
\* of branches maps to a list that is not empty, the list is a subsequence of
\* the history in the history's order, and each of its records is a record of
\* the history, with the corrected total: thought_number <= total_thoughts.
C22_BranchesWithinHistory ==
    \A k \in 1..Len(branches) :
        \E records \in {lists[branches[k][2]]} :
            /\ records # <<>>
            /\ IsSubsequence(records, thought_history)
            /\ \A i \in 1..Len(records) :
                  /\ \E j \in 1..Len(thought_history) : thought_history[j] = records[i]
                  /\ records[i].thought_number <= records[i].total_thoughts

\* branch "x" holds the first and the third record of the history, which differ,
\* the first with its total raised from 1 to 2; the second record is on no branch
C22_Witness ==
    /\ Len(thought_history) = 3
    /\ thought_history[1].thought_number = 2
    /\ thought_history[1].total_thoughts = 2
    /\ thought_history[2].branch_id = PyNone
    /\ thought_history[3] # thought_history[1]
    /\ DictKeys(branches) = <<"x">>
    /\ BranchOf("x") = <<thought_history[1], thought_history[3]>>

\* C21: the logging toggle is observational: two services that differ only in
\* disable_thought_logging and are given the same process_thought, clear_history
\* and get_summary calls have, after every call, returned the same value and
\* hold the same history and the same branches.
C21_ToggleObservational ==
    /\ twin.disable_thought_logging # disable_thought_logging
    /\ twin.ret = ret
    /\ twin.lists = lists
    /\ twin.branches = branches

\* both services have accepted a revision that names no thought and then a
\* thought on branch "x", and only one of them gave the thought to the logger
C21_Witness ==
    /\ Succeeded(ret)
    /\ Len(thought_history) = 2
    /\ thought_history[1].is_revision = PyBool(TRUE)
    /\ thought_history[1].revises_thought = PyNone
    /\ DictKeys(branches) = <<"x">>
    /\ twin.logged # logged
    /\ \E one \in {logged, twin.logged} :
          one = Info(<<"@ Branch 2/2 (from thought 1, ID: x)", "A", 40>>)

\* the papers the last get_trending_categories call was given by its queries
Fetched == Range(upstream.main.results) \cup Range(upstream.recent.results)
\* the number of distinct fetched papers that list the category
Listing(category) ==
    Cardinality({paper \in Fetched :
                    \E i \in 1..Len(paper.categories) : paper.categories[i] = category})

\* C23: get_trending_categories lets no upstream failure through; every count
\* it returns is at least min_papers and is the number of distinct fetched
\* papers that list the category, also when the main query failed part-way and
\* the 7-day query ran; when both queries failed the mapping is empty.
C23_TrendingCounts ==
    ret.op = "get_trending_categories" =>
        \E trending \in {ret.value.trending_categories} :
            /\ ret.value.error = PyNone
            /\ \A i \in 1..Len(trending) :
                  /\ trending[i][2] >= upstream.min_papers
                  /\ trending[i][2] = Listing(trending[i][1])
            /\ upstream.main.raises /\ upstream.recent.raises => trending = <<>>

====
